---- MODULE Spec2Model ----
(***************************************************************************)
(* Smart-city sensor analytics: the MongoDB aggregation pipelines of       *)
(* analytics/analysis.py and dashboard/app.py over the collection          *)
(* smart_city.sensor_data, and the writers of that collection.             *)
(*                                                                         *)
(* Representation.                                                         *)
(*  - A document is a record [area, timestamp, noise_db, traffic_count,    *)
(*    pm25].  area is a string.  Every other field is optional: <<>> is a  *)
(*    field the document lacks, <<v>> a field holding v.                   *)
(*  - The collection is a bag of documents (documents differ in _id only,  *)
(*    which every pipeline projects away).                                 *)
(*  - A rounded average is held in hundredths (10012 is 100.12); <<>> is   *)
(*    BSON null / Python None, <<n>> a number.                             *)
(*  - A listing of documents is a sequence of runs [doc, n]: n consecutive *)
(*    rows equal to doc.                                                   *)
(***************************************************************************)
EXTENDS Integers, Sequences, FiniteSets, Bags, TLC

VARIABLES
    store,            \* the collection smart_city.sensor_data
    cache,            \* st.cache_data entry of _get_distinct_areas: <<>> or <<list>>
    pc,               \* position of the dashboard script run
    areas,            \* app.py:87
    selected_areas,   \* app.py:88
    avg_pm,           \* app.py:163
    worst,            \* app.py:164  <<worst_area, worst_pm>>
    peak,             \* app.py:165  <<peak_hour, peak_traffic>>
    noisiest,         \* app.py:166  <<noisiest_area, noisiest_val>>
    abnormal_cnt,     \* app.py:167
    area_pm,          \* app.py:189
    noise_by_area,    \* app.py:194
    traffic_by_hour,  \* app.py:247
    abnormal,         \* app.py:276
    ret,              \* last value returned by a function of analytics/analysis.py
    writes,           \* writes issued to the collection so far
    appended,         \* the last run of db/append_city_data.py: its file's documents, its report
    datasets          \* the lists returned by the runs of generate_dataset so far

vars == <<store, cache, pc, areas, selected_areas, avg_pm, worst, peak, noisiest,
          abnormal_cnt, area_pm, noise_by_area, traffic_by_hour, abnormal, ret, writes,
          appended, datasets>>

results == <<avg_pm, worst, peak, noisiest, abnormal_cnt, area_pm, noise_by_area,
             traffic_by_hour, abnormal>>

-----------------------------------------------------------------------------
(* Values *)

None == <<>>

Some(v) == <<v>>

\* Area names of the generator, in lexicographic (string) order.
AreaNames == <<"City Center", "Industrial Zone">>

Areas == {AreaNames[i] : i \in DOMAIN AreaNames}

AreaRank(a) == CHOOSE i \in DOMAIN AreaNames : AreaNames[i] = a

\* Timestamp strings in lexicographic (string) order, with what $toDate and
\* $hour make of each: hour |-> <<h>>, or <<>> when the string does not parse.
TsTable == <<
    [s |-> "2024-03-01T08:15",    hour |-> <<8>>],
    [s |-> "2024-03-01T17:40:00", hour |-> <<17>>],
    [s |-> "2024-03-02T08:05:00", hour |-> <<8>>],
    [s |-> "not-a-date",          hour |-> <<>>] >>

TsStrings == {TsTable[i].s : i \in DOMAIN TsTable}

TsIndex(s) == CHOOSE i \in DOMAIN TsTable : TsTable[i].s = s

\* BSON sort key of a timestamp field: a missing field sorts as null, before
\* every string; strings sort lexicographically.
TsRank(ts) == IF ts = None THEN 0 ELSE TsIndex(ts[1])

\* $toDate raises a conversion error on a string that is no date.
ToDateRaises(doc) == doc.timestamp # None /\ TsTable[TsIndex(doc.timestamp[1])].hour = None

\* {"$hour": {"$toDate": "$timestamp"}}: null for a missing timestamp.
HourOf(doc) == IF doc.timestamp = None THEN None ELSE TsTable[TsIndex(doc.timestamp[1])].hour

-----------------------------------------------------------------------------
(* Thresholds and limits *)

NOISE_LIMIT == 85

TRAFFIC_LIMIT == 150

PM25_LIMIT == 100

ROW_CAP == 1000

-----------------------------------------------------------------------------
(* Query predicates *)

\* filter_query (app.py:97): {} for an empty selection, else {"area": {"$in": sel}}.
FilterQuery(sel) == IF sel # {} THEN Some(sel) ELSE None

\* {"$match": q} for q = {} or {"area": {"$in": xs}}.
MatchesFilter(q, doc) == q = None \/ doc.area \in q[1]

\* Gt with the comparison $gte.
Gt_gte(field, c) == field # None /\ field[1] >= c

\* {field: {"$gt": c}}: a document lacking the field matches no comparison.
Gt(field, c) == field # None /\ field[1] > c

\* {"$or": [{"noise_db": {"$gt": 85}}, {"traffic_count": {"$gt": 150}}, {"pm25": {"$gt": 100}}]}
AbnormalOr(doc) ==
    \/ Gt(doc.noise_db, NOISE_LIMIT)
    \/ Gt(doc.traffic_count, TRAFFIC_LIMIT)
    \/ Gt(doc.pm25, PM25_LIMIT)

-----------------------------------------------------------------------------
(* Pipeline stages over a bag of documents *)

Kinds(coll) == BagToSet(coll)

\* The documents of coll that satisfy the filter and, when abn, the $or as well.
MatchStage(coll, q, abn) ==
    LET S == {d \in Kinds(coll) : MatchesFilter(q, d) /\ (abn => AbnormalOr(d))}
    IN  [d \in S |-> coll[d]]

RECURSIVE CountDocs(_, _)
CountDocs(coll, S) ==
    IF S = {} THEN 0
    ELSE LET d == CHOOSE x \in S : TRUE IN coll[d] + CountDocs(coll, S \ {d})

RECURSIVE SumField(_, _, _)
SumField(coll, S, f) ==
    IF S = {} THEN 0
    ELSE LET d == CHOOSE x \in S : TRUE
         IN  coll[d] * d[f][1] + SumField(coll, S \ {d}, f)

\* Round2 truncating instead of rounding.
Round2_truncate(num, den) == (100 * num) \div den

\* {"$round": [x, 2]} of x = num/den, in hundredths: nearest, ties to even.
Round2(num, den) ==
    LET q == (100 * num) \div den
        r == (100 * num) % den
    IN  IF 2 * r < den THEN q
        ELSE IF 2 * r > den THEN q + 1
        ELSE IF q % 2 = 0 THEN q ELSE q + 1

\* AvgRound dividing by the number of all documents of S, a lacking field as 0.
AvgRound_lacking_as_zero(coll, S, f) ==
    LET H == {d \in S : d[f] # None}
    IN  IF S = {} THEN None
        ELSE Some(Round2(SumField(coll, H, f), CountDocs(coll, S)))

\* {"$avg": "$f"} over the documents S of coll, then $round to 2 places:
\* documents lacking f are ignored; null when none has it.
AvgRound(coll, S, f) ==
    LET H == {d \in S : d[f] # None}
    IN  IF H = {} THEN None
        ELSE Some(Round2(SumField(coll, H, f), CountDocs(coll, H)))

\* $group by "$area" with $avg of pm25, then the $project.
GroupAreaPm25(coll) ==
    { [area |-> a, avg_pm25 |-> AvgRound(coll, {d \in Kinds(coll) : d.area = a}, "pm25")]
        : a \in {d.area : d \in Kinds(coll)} }

\* $group by "$area" with $avg of noise_db, then the $project.
GroupAreaNoise(coll) ==
    { [area |-> a, avg_noise |-> AvgRound(coll, {d \in Kinds(coll) : d.area = a}, "noise_db")]
        : a \in {d.area : d \in Kinds(coll)} }

\* $addFields ts = $toDate(timestamp) fails the whole aggregation on one bad string.
HourStageRaises(coll) == \E d \in Kinds(coll) : ToDateRaises(d)

\* $group by {hour: $hour(ts)} with $avg of traffic_count, then the $project.
GroupHourTraffic(coll) ==
    { [hour |-> h,
       avg_traffic |-> AvgRound(coll, {d \in Kinds(coll) : HourOf(d) = h}, "traffic_count")]
        : h \in {HourOf(d) : d \in Kinds(coll)} }

\* Every arrangement of the rows S: the order a stage leaves unspecified.
Orders(S) ==
    {s \in [1..Cardinality(S) -> S] : \A i, j \in 1..Cardinality(S) : i # j => s[i] # s[j]}

\* BSON order of two rounded averages, descending: null sorts below every number.
MetricGE(m1, m2) == m2 = None \/ (m1 # None /\ m1[1] >= m2[1])

\* BSON order of two hours, ascending: null sorts below every number.
HourLE(h1, h2) == h1 = None \/ (h2 # None /\ h1[1] <= h2[1])

AreaLE(a1, a2) == AreaRank(a1) <= AreaRank(a2)

\* TsLE for {"$sort": {"timestamp": -1}}.
TsLE_descending(d1, d2) == TsRank(d1.timestamp) >= TsRank(d2.timestamp)

TsLE(d1, d2) == TsRank(d1.timestamp) <= TsRank(d2.timestamp)

\* The order a sort key puts two rows in: "-f" is {"f": -1}, "f" is {"f": 1},
\* "" is Python's sorted() on the values themselves.
SortLE(key, x, y) ==
    CASE key = "area"         -> AreaLE(x.area, y.area)
      [] key = "hour"         -> HourLE(x.hour, y.hour)
      [] key = "timestamp"    -> TsLE(x, y)
      [] key = "-avg_pm25"    -> MetricGE(x.avg_pm25, y.avg_pm25)
      [] key = "-avg_traffic" -> MetricGE(x.avg_traffic, y.avg_traffic)
      [] key = "-avg_noise"   -> MetricGE(x.avg_noise, y.avg_noise)
      [] key = ""             -> AreaLE(x, y)

\* $sort: the arrangements in which the key's order holds along the sequence
\* (rows with equal keys come out in any order).
SortStage(S, key) ==
    {s \in Orders(S) : \A i, j \in 1..Cardinality(S) : i < j => SortLE(key, s[i], s[j])}

\* {"$limit": n} on a sequence of rows.
LimitRows(s, n) == IF Len(s) <= n THEN s ELSE SubSeq(s, 1, n)

\* The sorted kinds as runs of equal rows.
Runs(coll, s) == [i \in DOMAIN s |-> [doc |-> s[i], n |-> coll[s[i]]]]

RECURSIVE RunsLen(_)
RunsLen(runs) == IF runs = <<>> THEN 0 ELSE Head(runs).n + RunsLen(Tail(runs))

\* {"$limit": n} on a sequence of runs.
RECURSIVE LimitRuns(_, _)
LimitRuns(runs, n) ==
    IF runs = <<>> \/ n = 0 THEN <<>>
    ELSE LET h == Head(runs)
         IN  IF h.n <= n THEN <<h>> \o LimitRuns(Tail(runs), n - h.n)
             ELSE <<[doc |-> h.doc, n |-> n]>>

-----------------------------------------------------------------------------
(* analytics/analysis.py: each function as the set of outcomes it can return,  *)
(* an outcome being [raised, rows].                                            *)

Returned(rows) == [raised |-> FALSE, rows |-> rows]

Raised == [raised |-> TRUE, rows |-> <<>>]

area_wise_avg_pm25(coll) ==
    {Returned(s) : s \in SortStage(GroupAreaPm25(coll), "area")}

traffic_density_by_hour(coll) ==
    IF HourStageRaises(coll) THEN {Raised}
    ELSE {Returned(s) : s \in SortStage(GroupHourTraffic(coll), "hour")}

avg_noise_by_area(coll) ==
    {Returned(s) : s \in SortStage(GroupAreaNoise(coll), "area")}

abnormal_readings(coll) ==
    LET m == MatchStage(coll, None, TRUE)
    IN  {Returned(LimitRuns(Runs(m, s), ROW_CAP)) : s \in SortStage(Kinds(m), "timestamp")}

-----------------------------------------------------------------------------
(* dashboard/app.py: KPI helpers and the four collections, over the global     *)
(* coll and filter_query q.                                                    *)

\* sorted(_collection.distinct("area"))
SortedAreas(coll) == CHOOSE s \in SortStage({d.area : d \in Kinds(coll)}, "") : TRUE

ListToSet(s) == {s[i] : i \in DOMAIN s}

\* get_avg_pm25 ending in "if res else 0".
get_avg_pm25_else_zero(coll, q) ==
    LET m == MatchStage(coll, q, FALSE)
    IN  IF Kinds(m) = {} THEN Some(0) ELSE AvgRound(m, Kinds(m), "pm25")

get_avg_pm25(coll, q) ==
    LET m == MatchStage(coll, q, FALSE)
    IN  IF Kinds(m) = {} THEN None ELSE AvgRound(m, Kinds(m), "pm25")

get_worst_pollution_area(coll, q) ==
    LET m == MatchStage(coll, q, FALSE)
    IN  { LET res == LimitRows(s, 1)
          IN  IF res # <<>> THEN <<Some(res[1].area), res[1].avg_pm25>> ELSE <<None, None>>
          : s \in SortStage(GroupAreaPm25(m), "-avg_pm25") }

\* The pairs get_peak_traffic_hour can return; it raises when PeakRaises.
PeakRaises(coll, q) == HourStageRaises(MatchStage(coll, q, FALSE))

get_peak_traffic_hour(coll, q) ==
    LET m == MatchStage(coll, q, FALSE)
    IN  { LET res == LimitRows(s, 1)
          IN  IF res # <<>> THEN <<res[1].hour, res[1].avg_traffic>> ELSE <<None, None>>
          : s \in SortStage(GroupHourTraffic(m), "-avg_traffic") }

get_noisiest_area(coll, q) ==
    LET m == MatchStage(coll, q, FALSE)
    IN  { LET res == LimitRows(s, 1)
          IN  IF res # <<>> THEN <<Some(res[1].area), res[1].avg_noise>> ELSE <<None, None>>
          : s \in SortStage(GroupAreaNoise(m), "-avg_noise") }

get_abnormal_count(coll, q) ==
    LET m == MatchStage(coll, q, TRUE)
    IN  CountDocs(m, Kinds(m))

\* app.py:189-193: no $sort stage, the rows come in the order $group emits them.
area_pm_pipeline(coll, q) == Orders(GroupAreaPm25(MatchStage(coll, q, FALSE)))

\* app.py:194-198
noise_by_area_pipeline(coll, q) == Orders(GroupAreaNoise(MatchStage(coll, q, FALSE)))

\* app.py:247-252: no $sort stage either; raises when PeakRaises.
traffic_by_hour_pipeline(coll, q) == Orders(GroupHourTraffic(MatchStage(coll, q, FALSE)))

\* app.py:276-285
abnormal_pipeline(coll, q) ==
    LET m == MatchStage(coll, q, TRUE)
    IN  {LimitRuns(Runs(m, s), ROW_CAP) : s \in SortStage(Kinds(m), "timestamp")}

-----------------------------------------------------------------------------
(* The dashboard script run (dashboard/app.py, top to bottom) *)

filter_query == FilterQuery(selected_areas)

NoPair == <<None, None>>

NoRet == [fn |-> "", raised |-> FALSE, rows |-> <<>>]

\* The script's globals before the run assigns them.
Unassigned ==
    /\ avg_pm' = None
    /\ worst' = NoPair
    /\ peak' = NoPair
    /\ noisiest' = NoPair
    /\ abnormal_cnt' = 0
    /\ area_pm' = <<>>
    /\ noise_by_area' = <<>>
    /\ traffic_by_hour' = <<>>
    /\ abnormal' = <<>>

\* No run of append_data yet.
NotRun == [file |-> <<>>, reported |-> None]

\* app.py:77-79: st.cache_data returns the cached list while the entry is there.
DistinctAreas == IF cache # None THEN cache[1] ELSE SortedAreas(store)

\* app.py:85-97: the area list, and the user's selection among the options.
Sidebar ==
    /\ pc = "sidebar"
    /\ areas' = DistinctAreas
    /\ cache' = Some(DistinctAreas)
    /\ \E sel \in SUBSET ListToSet(DistinctAreas) : selected_areas' = sel
    /\ pc' = "avg_pm"
    /\ UNCHANGED <<store, results, ret, writes, appended, datasets>>

\* app.py:163
Run_get_avg_pm25 ==
    /\ pc = "avg_pm"
    /\ avg_pm' = get_avg_pm25(store, filter_query)
    /\ pc' = "worst"
    /\ UNCHANGED <<store, cache, areas, selected_areas, worst, peak, noisiest, abnormal_cnt,
                   area_pm, noise_by_area, traffic_by_hour, abnormal, ret, writes, appended, datasets>>

\* app.py:164
Run_get_worst_pollution_area ==
    /\ pc = "worst"
    /\ worst' \in get_worst_pollution_area(store, filter_query)
    /\ pc' = "peak"
    /\ UNCHANGED <<store, cache, areas, selected_areas, avg_pm, peak, noisiest, abnormal_cnt,
                   area_pm, noise_by_area, traffic_by_hour, abnormal, ret, writes, appended, datasets>>

\* app.py:165: an OperationFailure of the aggregation ends the script run.
Run_get_peak_traffic_hour ==
    /\ pc = "peak"
    /\ IF PeakRaises(store, filter_query)
       THEN pc' = "raised" /\ peak' = peak
       ELSE pc' = "noisiest" /\ peak' \in get_peak_traffic_hour(store, filter_query)
    /\ UNCHANGED <<store, cache, areas, selected_areas, avg_pm, worst, noisiest, abnormal_cnt,
                   area_pm, noise_by_area, traffic_by_hour, abnormal, ret, writes, appended, datasets>>

\* app.py:166
Run_get_noisiest_area ==
    /\ pc = "noisiest"
    /\ noisiest' \in get_noisiest_area(store, filter_query)
    /\ pc' = "abnormal_cnt"
    /\ UNCHANGED <<store, cache, areas, selected_areas, avg_pm, worst, peak, abnormal_cnt,
                   area_pm, noise_by_area, traffic_by_hour, abnormal, ret, writes, appended, datasets>>

\* app.py:167
Run_get_abnormal_count ==
    /\ pc = "abnormal_cnt"
    /\ abnormal_cnt' = get_abnormal_count(store, filter_query)
    /\ pc' = "area_pm"
    /\ UNCHANGED <<store, cache, areas, selected_areas, avg_pm, worst, peak, noisiest,
                   area_pm, noise_by_area, traffic_by_hour, abnormal, ret, writes, appended, datasets>>

\* app.py:189-193
Run_area_pm ==
    /\ pc = "area_pm"
    /\ area_pm' \in area_pm_pipeline(store, filter_query)
    /\ pc' = "noise_by_area"
    /\ UNCHANGED <<store, cache, areas, selected_areas, avg_pm, worst, peak, noisiest,
                   abnormal_cnt, noise_by_area, traffic_by_hour, abnormal, ret, writes, appended, datasets>>

\* app.py:194-198
Run_noise_by_area ==
    /\ pc = "noise_by_area"
    /\ noise_by_area' \in noise_by_area_pipeline(store, filter_query)
    /\ pc' = "traffic_by_hour"
    /\ UNCHANGED <<store, cache, areas, selected_areas, avg_pm, worst, peak, noisiest,
                   abnormal_cnt, area_pm, traffic_by_hour, abnormal, ret, writes, appended, datasets>>

\* app.py:247-252
Run_traffic_by_hour ==
    /\ pc = "traffic_by_hour"
    /\ IF PeakRaises(store, filter_query)
       THEN pc' = "raised" /\ traffic_by_hour' = traffic_by_hour
       ELSE pc' = "abnormal" /\ traffic_by_hour' \in traffic_by_hour_pipeline(store, filter_query)
    /\ UNCHANGED <<store, cache, areas, selected_areas, avg_pm, worst, peak, noisiest,
                   abnormal_cnt, area_pm, noise_by_area, abnormal, ret, writes, appended, datasets>>

\* app.py:276-285
Run_abnormal ==
    /\ pc = "abnormal"
    /\ abnormal' \in abnormal_pipeline(store, filter_query)
    /\ pc' = "form"
    /\ UNCHANGED <<store, cache, areas, selected_areas, avg_pm, worst, peak, noisiest,
                   abnormal_cnt, area_pm, noise_by_area, traffic_by_hour, ret, writes, appended, datasets>>

\* app.py:317-337 with the form not submitted: existing_areas reads the cached list.
FormNotSubmitted ==
    /\ pc = "form"
    /\ cache' = Some(DistinctAreas)
    /\ pc' = "done"
    /\ UNCHANGED <<store, areas, selected_areas, results, ret, writes, appended, datasets>>

-----------------------------------------------------------------------------
(* Calls of analytics/analysis.py.  A client calls them on the collection while *)
(* no script run is under way; the returned value is kept until the next run.   *)

Call(fn, outcomes) ==
    /\ pc \in {"done", "raised"}
    /\ \E o \in outcomes : ret' = [fn |-> fn, raised |-> o.raised, rows |-> o.rows]
    /\ UNCHANGED <<store, cache, pc, areas, selected_areas, results, writes, appended, datasets>>

Call_area_wise_avg_pm25 == Call("area_wise_avg_pm25", area_wise_avg_pm25(store))

Call_traffic_density_by_hour == Call("traffic_density_by_hour", traffic_density_by_hour(store))

Call_avg_noise_by_area == Call("avg_noise_by_area", avg_noise_by_area(store))

Call_abnormal_readings == Call("abnormal_readings", abnormal_readings(store))

-----------------------------------------------------------------------------
(* The functions applied to a populated collection *)

Doc(a, ts, n, t, p) ==
    [area |-> a, timestamp |-> ts, noise_db |-> n, traffic_count |-> t, pm25 |-> p]

T1 == Some(TsTable[1].s)

T2 == Some(TsTable[2].s)

T3 == Some(TsTable[3].s)

TBad == Some(TsTable[4].s)

AtLimits == <<Some(NOISE_LIMIT), Some(TRAFFIC_LIMIT), Some(PM25_LIMIT)>>

\* <<noise_db, traffic_count, pm25>>: at the three limits, and one above each.
OverOne ==
    { <<Some(NOISE_LIMIT + 1), Some(TRAFFIC_LIMIT), Some(PM25_LIMIT)>>,
      <<Some(NOISE_LIMIT), Some(TRAFFIC_LIMIT + 1), Some(PM25_LIMIT)>>,
      <<Some(NOISE_LIMIT), Some(TRAFFIC_LIMIT), Some(PM25_LIMIT + 1)>> }

\* One field lacking, the others at their limits.
LackOne ==
    { <<None, Some(TRAFFIC_LIMIT), Some(PM25_LIMIT)>>,
      <<Some(NOISE_LIMIT), None, Some(PM25_LIMIT)>>,
      <<Some(NOISE_LIMIT), Some(TRAFFIC_LIMIT), None>> }

\* One field lacking, another above its limit.
LackOneOverOne ==
    { <<None, Some(TRAFFIC_LIMIT + 1), Some(PM25_LIMIT)>>,
      <<Some(NOISE_LIMIT), None, Some(PM25_LIMIT + 1)>>,
      <<Some(NOISE_LIMIT + 1), Some(TRAFFIC_LIMIT), None>> }

FnDocs ==
    {Doc(AreaNames[1], T1, p[1], p[2], p[3]) : p \in {AtLimits} \cup OverOne \cup LackOne}
    \cup {Doc(AreaNames[2], T2, p[1], p[2], p[3]) : p \in {AtLimits} \cup OverOne \cup LackOneOverOne}
    \cup { Doc(AreaNames[1], T3, Some(NOISE_LIMIT), Some(TRAFFIC_LIMIT), Some(PM25_LIMIT + 1)),
           Doc(AreaNames[1], TBad, Some(NOISE_LIMIT), Some(TRAFFIC_LIMIT), Some(PM25_LIMIT + 1)),
           Doc(AreaNames[2], None, Some(NOISE_LIMIT + 1), Some(TRAFFIC_LIMIT), Some(PM25_LIMIT)) }

\* Copies of one document in the collection: one, or more than the row cap.
MaxKinds == 2

Bulk == 1001

FnStores ==
    UNION { [S -> {1, Bulk}] : S \in {S \in SUBSET FnDocs : Cardinality(S) <= MaxKinds} }

InitFn ==
    /\ store \in FnStores
    /\ cache = None
    /\ pc = "sidebar"
    /\ areas = <<>>
    /\ selected_areas = {}
    /\ avg_pm = None
    /\ worst = NoPair
    /\ peak = NoPair
    /\ noisiest = NoPair
    /\ abnormal_cnt = 0
    /\ area_pm = <<>>
    /\ noise_by_area = <<>>
    /\ traffic_by_hour = <<>>
    /\ abnormal = <<>>
    /\ ret = NoRet
    /\ writes = 0
    /\ appended = NotRun
    /\ datasets = <<>>

NextFn ==
    \/ Sidebar
    \/ Run_get_avg_pm25
    \/ Run_get_worst_pollution_area
    \/ Run_get_peak_traffic_hour
    \/ Run_get_noisiest_area
    \/ Run_get_abnormal_count
    \/ Run_area_pm
    \/ Run_noise_by_area
    \/ Run_traffic_by_hour
    \/ Run_abnormal
    \/ FormNotSubmitted
    \/ Call_area_wise_avg_pm25
    \/ Call_traffic_density_by_hour
    \/ Call_avg_noise_by_area
    \/ Call_abnormal_readings

SpecFn == InitFn /\ [][NextFn]_vars

-----------------------------------------------------------------------------
(* Writers of the collection, and the script run with its form *)

\* What the form can submit (app.py:341-348): every field present, the timestamp
\* in isoformat(timespec="minutes"), the area possibly empty.
FormAreas == Areas \cup {""}

FormDoc(a, p) == Doc(a, T1, Some(70), Some(80), Some(p))

FormPm25 == {120}

\* Lines of a JSON Lines file: any documents, also lacking fields or malformed.
FileDocs ==
    { Doc(AreaNames[1], T2, Some(70), Some(80), Some(60)),
      Doc(AreaNames[2], TBad, Some(90), Some(80), None) }

MaxLines == 2

\* A line of the file after line.strip(): <<>> when nothing is left, else <<d>>
\* with d the document json.loads gives.
FileLines == {None} \cup {Some(d) : d \in FileDocs}

Files == UNION {[1..n -> FileLines] : n \in 0..MaxLines}

\* db/append_city_data.py:20-26: the documents of the lines that are not blank,
\* in file order.
RECURSIVE load_json_lines(_)
load_json_lines(file) ==
    IF file = <<>> THEN <<>>
    ELSE IF Head(file) = None THEN load_json_lines(Tail(file))
         ELSE <<Head(file)[1]>> \o load_json_lines(Tail(file))

\* The writers are followed for MaxWrites writes to the collection.
MaxWrites == 2

Min(a, b) == IF a <= b THEN a ELSE b

RECURSIVE BagOfSeq(_)
BagOfSeq(s) == IF s = <<>> THEN EmptyBag ELSE SetToBag({Head(s)}) (+) BagOfSeq(Tail(s))

Size(coll) == CountDocs(coll, Kinds(coll))

\* app.py:339-361 with the form submitted and an area given: insert_one, then
\* _get_distinct_areas.clear().
ManualInsert ==
    /\ pc = "form"
    /\ writes < MaxWrites
    /\ writes' = writes + 1
    /\ \E a \in FormAreas, p \in FormPm25 :
        /\ FormDoc(a, p).area # ""
        /\ store' = store (+) SetToBag({FormDoc(a, p)})
    /\ cache' = None
    /\ pc' = "done"
    /\ UNCHANGED <<areas, selected_areas, results, ret, appended, datasets>>

\* app.py:351-352: "Area is required."
ManualInsertRejected ==
    /\ pc = "form"
    /\ \E a \in FormAreas, p \in FormPm25 : FormDoc(a, p).area = ""
    /\ cache' = Some(DistinctAreas)
    /\ pc' = "done"
    /\ UNCHANGED <<store, areas, selected_areas, results, ret, writes, appended, datasets>>

\* Streamlit runs the script again, from the top, on the next interaction.
Rerun ==
    /\ pc \in {"done", "raised"}
    /\ pc' = "sidebar"
    /\ areas' = <<>>
    /\ selected_areas' = {}
    /\ Unassigned
    /\ ret' = NoRet
    /\ UNCHANGED <<store, cache, writes, appended, datasets>>

\* The form of another session of the same Streamlit process: same insert, same
\* process-wide cache.
OtherSessionInsert ==
    /\ writes < MaxWrites
    /\ writes' = writes + 1
    /\ \E a \in Areas, p \in FormPm25 : store' = store (+) SetToBag({FormDoc(a, p)})
    /\ cache' = None
    /\ UNCHANGED <<pc, areas, selected_areas, results, ret, appended, datasets>>

\* st.cache_data(ttl=60): the entry lapses.
CacheExpire ==
    /\ cache # None
    /\ cache' = None
    /\ UNCHANGED <<store, pc, areas, selected_areas, results, ret, writes, appended, datasets>>

BATCH == 1000

\* db/append_city_data.py:45-55 run to the end: the value of inserted, given
\* the documents still to read, the batch held and the count so far.
RECURSIVE InsertLoop(_, _, _)
InsertLoop(docs, batch, inserted) ==
    IF docs = <<>>
    THEN (IF batch # <<>> THEN inserted + Len(batch) ELSE inserted)
    ELSE LET b == Append(batch, Head(docs))
         IN  IF Len(b) >= BATCH
             THEN InsertLoop(Tail(docs), <<>>, inserted + Len(b))
             ELSE InsertLoop(Tail(docs), b, inserted)

\* The append_data variant whose loader keeps only the first document of the file.
append_data_first_line_only ==
    /\ writes < MaxWrites
    /\ writes' = writes + 1
    /\ \E file \in Files :
        LET docs == load_json_lines(file)
        IN  /\ store' = store (+) BagOfSeq(SubSeq(docs, 1, Min(1, Len(docs))))
            /\ appended' = [file |-> file, reported |-> Some(InsertLoop(docs, <<>>, 0))]
    /\ UNCHANGED <<cache, pc, areas, selected_areas, results, ret, datasets>>

\* db/append_city_data.py:37-62 append_data.  insert_many is ordered: when it
\* raises a PyMongoError at a document, the documents before it are in the
\* collection, "Insertion error" is printed and nothing else is reported.  A run
\* to the end prints the count inserted.
append_data ==
    /\ writes < MaxWrites
    /\ writes' = writes + 1
    /\ \E file \in Files :
        LET docs == load_json_lines(file)
        IN  \/ /\ store' = store (+) BagOfSeq(docs)
               /\ appended' = [file |-> file, reported |-> Some(InsertLoop(docs, <<>>, 0))]
            \/ \E k \in 0..(Len(docs) - 1) :
                  /\ store' = store (+) BagOfSeq(SubSeq(docs, 1, k))
                  /\ appended' = [file |-> file, reported |-> None]
    /\ UNCHANGED <<cache, pc, areas, selected_areas, results, ret, datasets>>

\* db/mongo_setup.py:55-88 setup_mongo: coll.drop(), then the same load; on a
\* PyMongoError the script exits with the documents before it inserted.
setup_mongo ==
    /\ writes < MaxWrites
    /\ writes' = writes + 1
    /\ \E file \in Files :
        LET docs == load_json_lines(file)
        IN  \E k \in 0..Len(docs) : store' = BagOfSeq(SubSeq(docs, 1, k))
    /\ UNCHANGED <<cache, pc, areas, selected_areas, results, ret, appended, datasets>>

Init ==
    /\ store = EmptyBag
    /\ cache = None
    /\ pc = "sidebar"
    /\ areas = <<>>
    /\ selected_areas = {}
    /\ avg_pm = None
    /\ worst = NoPair
    /\ peak = NoPair
    /\ noisiest = NoPair
    /\ abnormal_cnt = 0
    /\ area_pm = <<>>
    /\ noise_by_area = <<>>
    /\ traffic_by_hour = <<>>
    /\ abnormal = <<>>
    /\ ret = NoRet
    /\ writes = 0
    /\ appended = NotRun
    /\ datasets = <<>>

Next ==
    \/ NextFn
    \/ ManualInsert
    \/ ManualInsertRejected
    \/ Rerun
    \/ OtherSessionInsert
    \/ CacheExpire
    \/ append_data
    \/ setup_mongo

Spec == Init /\ [][Next]_vars

-----------------------------------------------------------------------------
(* data/generate_sensor_data.py *)

AREAS == <<"City Center", "Industrial Zone", "Residential Area", "Market Area", "Park Area">>

\* The i-th output of the random module after random.seed(seed): a fixed function
\* of the seed and the position, standing for the Mersenne Twister stream.
Rand(seed, i) == (seed * 7919 + i * i * 31 + i * 17) % 10007

\* Draws taken from the stream by one generate_record.
DrawsPerRecord == 8

\* random.gauss(mu, sigma) truncated by int(), from the draw u.
IntGauss(mu, sigma, u) == mu + (u % (2 * sigma + 1)) - sigma

Max(a, b) == IF a >= b THEN a ELSE b

base_traffic(area) ==
    CASE area = "City Center" -> 80 [] area = "Industrial Zone" -> 60
      [] area = "Residential Area" -> 40 [] area = "Market Area" -> 70 [] area = "Park Area" -> 20

area_noise_bias(area) ==
    CASE area = "City Center" -> 70 [] area = "Industrial Zone" -> 75
      [] area = "Residential Area" -> 50 [] area = "Market Area" -> 65 [] area = "Park Area" -> 45

area_pm25_bias(area) ==
    CASE area = "City Center" -> 65 [] area = "Industrial Zone" -> 80
      [] area = "Residential Area" -> 35 [] area = "Market Area" -> 55 [] area = "Park Area" -> 30

\* datetime.now() as <<day, hour, minute>>; .replace(minute=0, second=0,
\* microsecond=0) keeps the day and the hour.
base_time_of(now) == <<now[1], now[2], 0>>

\* generate_sensor_data.py:33-85.  uuid is the value uuid.uuid4() returns: it is
\* read from os.urandom, not from the random module.
generate_record(base_time, seed, pos, uuid) ==
    LET area    == AREAS[(Rand(seed, pos + 1) % Len(AREAS)) + 1]
        hour    == Rand(seed, pos + 2) % 24
        minutes == Rand(seed, pos + 3) % (60 * 24 * 7 + 1)
        total   == base_time[2] * 60 + base_time[3] + minutes
        mean    == IF hour \in {7, 8, 9, 17, 18, 19}
                   THEN (base_traffic(area) * 16) \div 10 ELSE base_traffic(area)
        traffic == Max(0, IntGauss(mean, 20, Rand(seed, pos + 4)))
        noise   == Max(30, IntGauss(area_noise_bias(area) + (traffic \div 10), 8, Rand(seed, pos + 5)))
        pm      == IntGauss(area_pm25_bias(area), 15, Rand(seed, pos + 6))
        spike   == IF Rand(seed, pos + 7) % 100 < 3 THEN 30 + (Rand(seed, pos + 8) % 51) ELSE 0
    IN  [sensor_id     |-> uuid,
         area          |-> area,
         timestamp     |-> <<base_time[1] + (total \div (60 * 24)), hour, total % 60>>,
         noise_db      |-> noise,
         traffic_count |-> traffic,
         pm25          |-> Max(5, pm + spike)]

\* generate_sensor_data.py:88-92 with the stream seeded by seed, the clock at now
\* and uuids[i] the i-th value of uuid.uuid4().
generate_dataset(n_records, seed, now, uuids) ==
    [i \in 1..n_records |->
        generate_record(base_time_of(now), seed, (i - 1) * DrawsPerRecord, uuids[i])]

Seeds == {42, 7}

\* Values of datetime.now(), as <<day, hour, minute>>.
Clock == {<<1, 9, 5>>, <<1, 9, 50>>, <<1, 23, 5>>, <<2, 9, 5>>}

\* Values of str(uuid.uuid4()).
UUIDs == {"uuid-a", "uuid-b"}

MaxRecords == 2

MaxRuns == 2

\* A call generate_dataset(n_records, seed) at some time of the clock.  With
\* seed=None random.seed is not called and the stream is the one the interpreter
\* seeded from the operating system at start-up.
Call_generate_dataset ==
    /\ Len(datasets) < MaxRuns
    /\ \E n_records \in 0..MaxRecords, seed \in {None} \cup {Some(s) : s \in Seeds},
          now \in Clock, os_seed \in Seeds :
        \E uuids \in [1..n_records -> UUIDs] :
            datasets' = Append(datasets,
                [n_records |-> n_records,
                 seed      |-> seed,
                 records   |-> generate_dataset(n_records,
                                   IF seed # None THEN seed[1] ELSE os_seed, now, uuids)])
    /\ UNCHANGED <<store, cache, pc, areas, selected_areas, results, ret, writes, appended>>

NextGen == Call_generate_dataset

SpecGen == Init /\ [][NextGen]_vars

-----------------------------------------------------------------------------
(* Properties *)

\* Rows of a listing that equal the document d.
RECURSIVE Listed(_, _)
Listed(runs, d) ==
    IF runs = <<>> THEN 0
    ELSE (IF Head(runs).doc = d THEN Head(runs).n ELSE 0) + Listed(Tail(runs), d)

PassesSelection(sel, d) == sel = {} \/ d.area \in sel

ExceedsALimit(d) ==
    \/ (d.noise_db # None /\ d.noise_db[1] > 85)
    \/ (d.traffic_count # None /\ d.traffic_count[1] > 150)
    \/ (d.pm25 # None /\ d.pm25[1] > 100)

ExceedsOnlyOne(d) ==
    Cardinality({f \in {"noise_db", "traffic_count", "pm25"} :
        d[f] # None /\ d[f][1] > (CASE f = "noise_db" -> 85 [] f = "traffic_count" -> 150 [] OTHER -> 100)}) = 1

AtTheLimits(d) == d.noise_db = <<85>> /\ d.traffic_count = <<150>> /\ d.pm25 = <<100>>

\* A listing of coll under the selection sel holds only documents of coll that
\* pass the selection and exceed a limit, and, unless it is cut at the row cap,
\* every copy of each such document.
ListsTheAbnormal(coll, sel, runs) ==
    /\ \A i \in DOMAIN runs : runs[i].doc \in Kinds(coll) /\ runs[i].n >= 1
    /\ \A d \in Kinds(coll) :
        /\ Listed(runs, d) > 0 => PassesSelection(sel, d) /\ ExceedsALimit(d)
        /\ PassesSelection(sel, d) /\ ExceedsALimit(d) /\ RunsLen(runs) < 1000
              => Listed(runs, d) = coll[d]

\* C1: a reading is in the abnormal-readings result (the dashboard's listing under
\* the selection, and abnormal_readings of analysis.py with no selection), before
\* the row cap cuts it, if and only if it passes the area selection and has
\* noise_db > 85 or traffic_count > 150 or pm25 > 100, strictly.
C1_AbnormalIffOverALimit ==
    [][ /\ Run_abnormal => ListsTheAbnormal(store, selected_areas, abnormal')
        /\ Call_abnormal_readings => ListsTheAbnormal(store, {}, ret'.rows) ]_vars

\* C1 witness: a listing was computed that holds a reading over exactly one limit
\* while a reading exactly at 85/150/100 that passes the selection is left out.
C1_Witness ==
    /\ pc = "form"
    /\ \E i \in DOMAIN abnormal : ExceedsOnlyOne(abnormal[i].doc)
    /\ \E d \in Kinds(store) :
        AtTheLimits(d) /\ PassesSelection(selected_areas, d) /\ Listed(abnormal, d) = 0

\* The number of readings of coll that pass the selection and exceed a limit.
Qualifying(coll, sel) ==
    CountDocs(coll, {d \in Kinds(coll) : PassesSelection(sel, d) /\ ExceedsALimit(d)})

\* The listing has min(N, 1000) rows in ascending timestamp order, and no reading
\* it leaves out is earlier than one it holds.
EarliestFirst(coll, sel, runs) ==
    /\ RunsLen(runs) = Min(Qualifying(coll, sel), 1000)
    /\ \A i, j \in DOMAIN runs :
        i < j => TsRank(runs[i].doc.timestamp) <= TsRank(runs[j].doc.timestamp)
    /\ \A d \in Kinds(coll) :
        PassesSelection(sel, d) /\ ExceedsALimit(d) /\ Listed(runs, d) < coll[d]
            => \A i \in DOMAIN runs : TsRank(runs[i].doc.timestamp) <= TsRank(d.timestamp)

\* C2: with N qualifying readings the abnormal-count KPI is N, uncapped, and the
\* abnormal listing has min(N, 1000) rows, ascending by timestamp, the earliest ones.
C2_CountUncappedListingEarliest ==
    [][ /\ Run_get_abnormal_count => abnormal_cnt' = Qualifying(store, selected_areas)
        /\ Run_abnormal => EarliestFirst(store, selected_areas, abnormal') ]_vars

\* C2 witness: a run counted more than 1000 qualifying readings and listed 1000,
\* of two different timestamps, leaving copies of a qualifying reading out.
C2_Witness ==
    /\ pc = "form"
    /\ abnormal_cnt > 1000
    /\ RunsLen(abnormal) = 1000
    /\ Len(abnormal) >= 2
    /\ abnormal[1].doc.timestamp # abnormal[Len(abnormal)].doc.timestamp
    /\ \E d \in Kinds(store) : ExceedsALimit(d) /\ Listed(abnormal, d) < store[d]

-----------------------------------------------------------------------------
(* C3 *)

\* Everything the nine operations can produce on coll under the query q.
Outcomes(coll, q) ==
    [ avg_pm |-> get_avg_pm25(coll, q),
      worst |-> get_worst_pollution_area(coll, q),
      peak_raises |-> PeakRaises(coll, q),
      peak |-> get_peak_traffic_hour(coll, q),
      noisiest |-> get_noisiest_area(coll, q),
      abnormal_cnt |-> get_abnormal_count(coll, q),
      area_pm |-> area_pm_pipeline(coll, q),
      noise_by_area |-> noise_by_area_pipeline(coll, q),
      traffic_by_hour |-> traffic_by_hour_pipeline(coll, q),
      abnormal |-> abnormal_pipeline(coll, q) ]

\* C3: the operations give with an empty selection what they give with every area
\* of the list _get_distinct_areas hands to the selection widget selected.
C3_EmptySelectionIsEveryKnownArea ==
    [][ Sidebar => Outcomes(store, FilterQuery({})) = Outcomes(store, FilterQuery(ListToSet(areas'))) ]_vars

-----------------------------------------------------------------------------
(* C4, C5 *)

Abs(x) == IF x < 0 THEN -x ELSE x

Matching(coll, sel) == {d \in Kinds(coll) : PassesSelection(sel, d)}

\* m is the mean of field f over the documents of S that have f, to the nearest
\* hundredth; null when no document of S has f.
IsMeanOf(m, coll, S, f) ==
    LET H == {d \in S : d[f] # None}
    IN  IF H = {} THEN m = None
        ELSE /\ m # None
             /\ 2 * Abs(100 * SumField(coll, H, f) - m[1] * CountDocs(coll, H)) <= CountDocs(coll, H)

\* m is a number, the mean of field f over S to the nearest hundredth.
IsNumericMeanOf(m, coll, S, f) ==
    /\ m # None
    /\ LET H == {d \in S : d[f] # None}
       IN  /\ H # {}
           /\ 2 * Abs(100 * SumField(coll, H, f) - m[1] * CountDocs(coll, H)) <= CountDocs(coll, H)

\* rows has one row per area of a matching reading and no other row.
OneRowPerArea(coll, sel, rows) ==
    /\ \A i, j \in DOMAIN rows : rows[i].area = rows[j].area => i = j
    /\ {rows[i].area : i \in DOMAIN rows} = {d.area : d \in Matching(coll, sel)}

InArea(coll, sel, a) == {d \in Matching(coll, sel) : d.area = a}

AscendingByArea(rows) ==
    \A i, j \in DOMAIN rows : i < j => AreaRank(rows[i].area) < AreaRank(rows[j].area)

\* C5: the rows of every area-wise average collection, of analysis.py and of the
\* dashboard's filtered pipelines alike, are in ascending order of area name.
C5_AreaRowsAscending ==
    [][ /\ Run_area_pm => AscendingByArea(area_pm')
        /\ Run_noise_by_area => AscendingByArea(noise_by_area')
        /\ Call_area_wise_avg_pm25 => AscendingByArea(ret'.rows)
        /\ Call_avg_noise_by_area => AscendingByArea(ret'.rows) ]_vars

-----------------------------------------------------------------------------
(* C6, C7 *)

\* The documents whose timestamp is there and parses.
WellFormed(S) == {d \in S : d.timestamp # None /\ ~ToDateRaises(d)}

HourSet(S) == {HourOf(d)[1] : d \in WellFormed(S)}

\* rows is the hourly result over the readings S of coll: one row per hour of day
\* with a reading, the hour in 0..23, the metric the hour's mean traffic_count to
\* 2 decimal places, in ascending order of hour.
IsHourly(coll, S, rows) ==
    /\ \A i \in DOMAIN rows : rows[i].hour # None /\ rows[i].hour[1] \in 0..23
    /\ \A i, j \in DOMAIN rows : i < j => rows[i].hour[1] < rows[j].hour[1]
    /\ {rows[i].hour[1] : i \in DOMAIN rows} = HourSet(S)
    /\ \A i \in DOMAIN rows :
        IsNumericMeanOf(rows[i].avg_traffic, coll,
                        {d \in WellFormed(S) : HourOf(d) = rows[i].hour}, "traffic_count")

\* C6: the hourly traffic density holds exactly one row per hour of day with a
\* matching reading, each hour an integer in 0..23, the metric the mean
\* traffic_count of the hour to 2 decimal places, the rows ascending by hour.
C6_HourlyRows ==
    [][ /\ Run_traffic_by_hour /\ pc' # "raised" =>
            IsHourly(store, Matching(store, selected_areas), traffic_by_hour')
        /\ Call_traffic_density_by_hour /\ ~ret'.raised =>
            IsHourly(store, Kinds(store), ret'.rows) ]_vars

\* coll without the readings whose timestamp is missing or does not parse.
WithoutMalformed(coll) == [d \in WellFormed(Kinds(coll)) |-> coll[d]]

\* C7: with a reading of missing or unparsable timestamp in the collection, the
\* hourly traffic density and the peak-traffic-hour KPI complete without raising
\* and return what they return without that reading.
C7_MalformedTimestampSkipped ==
    [][ /\ Run_get_peak_traffic_hour =>
            /\ pc' # "raised"
            /\ peak' \in get_peak_traffic_hour(WithoutMalformed(store), filter_query)
        /\ Run_traffic_by_hour =>
            /\ pc' # "raised"
            /\ traffic_by_hour' \in traffic_by_hour_pipeline(WithoutMalformed(store), filter_query)
        /\ Call_traffic_density_by_hour =>
            /\ ~ret'.raised
            /\ Returned(ret'.rows) \in traffic_density_by_hour(WithoutMalformed(store)) ]_vars

-----------------------------------------------------------------------------
(* C8 *)

Lacks(d) == d.noise_db = None \/ d.traffic_count = None \/ d.pm25 = None

\* C8: a reading lacking one numeric field adds nothing to the sum or the count
\* of that field's average in any aggregation or KPI, is counted in the averages
\* of the fields it has, and is tested against the limits of the fields it has.
C8_LackingFieldSkipped ==
    [][ /\ Run_get_avg_pm25 =>
            IsMeanOf(avg_pm', store, Matching(store, selected_areas), "pm25")
        /\ Run_get_worst_pollution_area /\ worst'[1] # None =>
            IsMeanOf(worst'[2], store, InArea(store, selected_areas, worst'[1][1]), "pm25")
        /\ Run_get_noisiest_area /\ noisiest'[1] # None =>
            IsMeanOf(noisiest'[2], store, InArea(store, selected_areas, noisiest'[1][1]), "noise_db")
        /\ Run_get_peak_traffic_hour /\ pc' # "raised" /\ peak' # NoPair =>
            IsMeanOf(peak'[2], store,
                     {d \in Matching(store, selected_areas) : HourOf(d) = peak'[1]}, "traffic_count")
        /\ Run_area_pm =>
            \A i \in DOMAIN area_pm' : IsMeanOf(area_pm'[i].avg_pm25, store,
                    InArea(store, selected_areas, area_pm'[i].area), "pm25")
        /\ Run_noise_by_area =>
            \A i \in DOMAIN noise_by_area' : IsMeanOf(noise_by_area'[i].avg_noise, store,
                    InArea(store, selected_areas, noise_by_area'[i].area), "noise_db")
        /\ Run_traffic_by_hour /\ pc' # "raised" =>
            \A i \in DOMAIN traffic_by_hour' : IsMeanOf(traffic_by_hour'[i].avg_traffic, store,
                    {d \in Matching(store, selected_areas) : HourOf(d) = traffic_by_hour'[i].hour},
                    "traffic_count")
        /\ Run_get_abnormal_count => abnormal_cnt' = Qualifying(store, selected_areas)
        /\ Run_abnormal =>
            \A d \in Matching(store, selected_areas) :
                Lacks(d) /\ ExceedsALimit(d) /\ RunsLen(abnormal') < 1000
                    => Listed(abnormal', d) = store[d] ]_vars

\* C8 witness: a run over a reading that lacks pm25 and is over the noise limit,
\* and a reading that has pm25: the first is in the abnormal listing, and the
\* average pm25 is the pm25 of the second.
C8_Witness ==
    /\ pc = "form"
    /\ \E d \in Matching(store, selected_areas) :
        /\ d.pm25 = None
        /\ Listed(abnormal, d) > 0
        /\ \E e \in Matching(store, selected_areas) : e.pm25 # None /\ avg_pm = <<100 * e.pm25[1]>>

-----------------------------------------------------------------------------
(* C9 *)

NoMatch == Matching(store, selected_areas) = {}

\* C9: when no reading matches the filter, nothing raises; the four collections
\* are empty, get_avg_pm25 is None, the three top-1 KPIs are (None, None) and
\* get_abnormal_count is 0.
C9_NoMatchGivesEmpty ==
    [][ NoMatch =>
        /\ Run_get_avg_pm25 => avg_pm' = None
        /\ Run_get_worst_pollution_area => worst' = <<None, None>>
        /\ Run_get_peak_traffic_hour => pc' # "raised" /\ peak' = <<None, None>>
        /\ Run_get_noisiest_area => noisiest' = <<None, None>>
        /\ Run_get_abnormal_count => abnormal_cnt' = 0
        /\ Run_area_pm => area_pm' = <<>>
        /\ Run_noise_by_area => noise_by_area' = <<>>
        /\ Run_traffic_by_hour => pc' # "raised" /\ traffic_by_hour' = <<>>
        /\ Run_abnormal => abnormal' = <<>>
        /\ store = EmptyBag =>
            /\ Call_area_wise_avg_pm25 => ~ret'.raised /\ ret'.rows = <<>>
            /\ Call_traffic_density_by_hour => ~ret'.raised /\ ret'.rows = <<>>
            /\ Call_avg_noise_by_area => ~ret'.raised /\ ret'.rows = <<>>
            /\ Call_abnormal_readings => ~ret'.raised /\ ret'.rows = <<>> ]_vars

\* C9 witness: a run has gone through all nine operations with areas selected
\* and a collection that holds readings, none of them of a selected area.
C9_Witness ==
    /\ pc = "form"
    /\ selected_areas # {}
    /\ store # EmptyBag
    /\ NoMatch
    /\ avg_pm = None /\ worst = NoPair /\ peak = NoPair /\ noisiest = NoPair
    /\ abnormal_cnt = 0
    /\ area_pm = <<>> /\ noise_by_area = <<>> /\ traffic_by_hour = <<>> /\ abnormal = <<>>

-----------------------------------------------------------------------------
(* C10 *)

\* pair is <<key, metric>> of a row of rows whose metric no row exceeds.
IsTopRow(pair, keys, metrics) ==
    \E i \in DOMAIN keys :
        /\ pair = <<keys[i], metrics[i]>>
        /\ \A j \in DOMAIN keys : MetricGE(metrics[i], metrics[j])

AsSeq(S) == CHOOSE s \in Orders(S) : TRUE

\* C10: with a non-empty filtered population each top-1 KPI returns a row of its
\* aggregation under the same filter with the highest metric, and for a given
\* collection content the pair returned is the same at every invocation.
C10_TopRowAndDeterministic ==
    [][ ~NoMatch =>
        /\ Run_get_worst_pollution_area =>
            /\ LET rows == AsSeq(GroupAreaPm25(MatchStage(store, filter_query, FALSE)))
               IN  IsTopRow(worst', [i \in DOMAIN rows |-> Some(rows[i].area)],
                                    [i \in DOMAIN rows |-> rows[i].avg_pm25])
            /\ Cardinality(get_worst_pollution_area(store, filter_query)) = 1
        /\ Run_get_noisiest_area =>
            /\ LET rows == AsSeq(GroupAreaNoise(MatchStage(store, filter_query, FALSE)))
               IN  IsTopRow(noisiest', [i \in DOMAIN rows |-> Some(rows[i].area)],
                                       [i \in DOMAIN rows |-> rows[i].avg_noise])
            /\ Cardinality(get_noisiest_area(store, filter_query)) = 1
        /\ Run_get_peak_traffic_hour =>
            /\ pc' # "raised"
            /\ LET rows == AsSeq(GroupHourTraffic(MatchStage(store, filter_query, FALSE)))
               IN  IsTopRow(peak', [i \in DOMAIN rows |-> rows[i].hour],
                                   [i \in DOMAIN rows |-> rows[i].avg_traffic])
            /\ Cardinality(get_peak_traffic_hour(store, filter_query)) = 1 ]_vars

\* The lines of a file that are not blank, and the bag of their documents.
NonBlankLines(file) == {i \in DOMAIN file : file[i] # None}

LineDocs(file) ==
    [d \in {file[i][1] : i \in NonBlankLines(file)} |->
        Cardinality({i \in NonBlankLines(file) : file[i][1] = d})]

\* Every document of coll is in coll2 with at least as many copies.
KeepsAll(coll, coll2) ==
    \A d \in DOMAIN coll : d \in DOMAIN coll2 /\ coll2[d] >= coll[d]

\* C11: append_data never drops or modifies a document already in the collection,
\* also when an insertion error stops it part-way through the file; when it runs
\* to the end the collection is the prior documents plus one document per
\* non-blank line of the file, and the count it reports is that number of lines.
C11_AppendKeepsAndAdds ==
    [][ append_data =>
          /\ KeepsAll(store, store')
          /\ appended'.reported # None =>
                /\ store' = store (+) LineDocs(appended'.file)
                /\ appended'.reported = Some(Cardinality(NonBlankLines(appended'.file))) ]_vars

\* C11 witness: a run over a file of two documents was stopped by an insertion
\* error after the first, with a document of an earlier manual insert still in
\* the collection.
C11_Witness ==
    /\ appended.reported = None
    /\ Cardinality(NonBlankLines(appended.file)) = 2
    /\ appended.file[1][1] \in DOMAIN store
    /\ appended.file[2][1] \notin DOMAIN store
    /\ \E d \in DOMAIN store : d \notin FileDocs

\* C12: two runs of generate_dataset with the same n_records and the same seed
\* return identical record lists: the same sensor_id, area, timestamp, noise_db,
\* traffic_count and pm25 in every position.
C12_SameSeedSameRecords ==
    \A i, j \in DOMAIN datasets :
        /\ datasets[i].n_records = datasets[j].n_records
        /\ datasets[i].seed # None
        /\ datasets[i].seed = datasets[j].seed
        => datasets[i].records = datasets[j].records

\* C13: in every interleaving of a dashboard refresh with the inserts of other
\* writers, the refresh's results are computed over one population: once all nine
\* are computed, the worst-pollution pair is a row of the refresh's area-wise
\* pollution collection, and the abnormal count, when at most 1000, is the length
\* of the refresh's abnormal listing.
C13_RefreshOverOnePopulation ==
    pc = "form" =>
        /\ worst # NoPair =>
              \E i \in DOMAIN area_pm :
                  worst = <<Some(area_pm[i].area), area_pm[i].avg_pm25>>
        /\ abnormal_cnt <= 1000 => RunsLen(abnormal) = abnormal_cnt

\* The steps of the script that call _get_distinct_areas(coll): the sidebar
\* (app.py:87) and the form (app.py:321).
CallsDistinctAreas == Sidebar \/ FormNotSubmitted \/ ManualInsert \/ ManualInsertRejected

\* C14: the cached area list is invalidated after every write that can bring a
\* new area (manual insert, append_data, setup_mongo), so that each call of
\* _get_distinct_areas returns a list holding the area of every reading in the
\* store; and a manual insert with an empty area is rejected: the store is left
\* as it was and the cached list is not cleared.
C14_CacheInvalidatedAfterWrites ==
    [][ /\ CallsDistinctAreas =>
              \A d \in DOMAIN store : d.area \in ListToSet(DistinctAreas)
        /\ ManualInsertRejected =>
              /\ store' = store
              /\ cache' # None
              /\ cache # None => cache' = cache ]_vars

====
